---- MODULE Spec2Model ----
(***************************************************************************)
(* Phi accrual failure detector (src/src/lib.rs): the PingWindow           *)
(* accumulator and the NormalDist snapshot derived from it.                *)
(*                                                                         *)
(* f64 values are modelled as decimal floating-point numbers: a sign, a    *)
(* significand of at most Prec limbs in base Base (little-endian), and an  *)
(* exponent counted in limbs.  Every arithmetic operation computes the     *)
(* exact result on the significands and rounds it once to Prec limbs       *)
(* (round half away from zero), as an IEEE operation does.  Infinities and *)
(* NaN are values of their own.                                            *)
(***************************************************************************)
EXTENDS Integers, Sequences, FiniteSets

\* One limb of a significand holds four decimal digits.
Base == 10000

\* Limbs kept in a significand: 17 to 20 decimal digits, no fewer than the 53
\* bits of an f64.
Prec == 5

(***************************************************************************)
(* Arguments are passed by value: At(F, a) is F at the value of a, which   *)
(* is computed once however often F uses it.                               *)
(***************************************************************************)
At(F(_), a) == CHOOSE r \in {F(x) : x \in {a}} : TRUE

At2(F(_, _), a, b) == CHOOSE r \in {F(x, y) : x \in {a}, y \in {b}} : TRUE

(***************************************************************************)
(* Natural numbers as little-endian limb sequences.                        *)
(***************************************************************************)
RECURSIVE NatTrimFrom(_, _)
NatTrimFrom(a, n) ==
    IF n = 0 THEN <<>>
    ELSE IF a[n] # 0 THEN SubSeq(a, 1, n)
    ELSE NatTrimFrom(a, n - 1)

\* a without its high zero limbs
NatTrim(a) == At(LAMBDA u : NatTrimFrom(u, Len(u)), a)

RECURSIVE NatCarry(_, _, _)
\* limbs of the raw column sums r (each below 2^31) from column i on, with carry c
NatCarry(r, i, c) ==
    IF i > Len(r)
    THEN IF c = 0 THEN <<>> ELSE <<c % Base>> \o NatCarry(r, i, c \div Base)
    ELSE LET t == r[i] + c
         IN  <<t % Base>> \o NatCarry(r, i + 1, t \div Base)

\* the limbs of the raw column sums r
NatNorm(r) == At(LAMBDA u : NatCarry(u, 1, 0), r)

NatLimb(a, i) == IF i >= 1 /\ i <= Len(a) THEN a[i] ELSE 0

NatMax(x, y) == IF x >= y THEN x ELSE y

NatMin(x, y) == IF x <= y THEN x ELSE y

NatAdd(a, b) ==
    At2(LAMBDA u, w :
            NatNorm([i \in 1..NatMax(Len(u), Len(w)) |-> NatLimb(u, i) + NatLimb(w, i)]),
        a, b)

RECURSIVE NatCmpFrom(_, _, _)
NatCmpFrom(a, b, i) ==
    IF i = 0 THEN 0
    ELSE IF a[i] > b[i] THEN 1
    ELSE IF a[i] < b[i] THEN -1
    ELSE NatCmpFrom(a, b, i - 1)

\* -1, 0, 1 as a < b, a = b, a > b (a, b trimmed)
NatCmp(a, b) ==
    At2(LAMBDA u, w :
            IF Len(u) > Len(w) THEN 1
            ELSE IF Len(u) < Len(w) THEN -1
            ELSE NatCmpFrom(u, w, Len(u)),
        a, b)

RECURSIVE NatBorrow(_, _, _, _)
NatBorrow(a, b, i, c) ==
    IF i > Len(a) THEN <<>>
    ELSE LET t == a[i] - NatLimb(b, i) - c
         IN  IF t < 0 THEN <<t + Base>> \o NatBorrow(a, b, i + 1, 1)
                      ELSE <<t>> \o NatBorrow(a, b, i + 1, 0)

\* a - b for a >= b
NatSub(a, b) == At2(LAMBDA u, w : NatTrim(NatBorrow(u, w, 1, 0)), a, b)

RECURSIVE NatColumn(_, _, _, _)
\* sum of a[j] * b[k + 1 - j] over j from i on
NatColumn(a, b, k, i) ==
    IF i > NatMin(Len(a), k) THEN 0
    ELSE a[i] * b[k + 1 - i] + NatColumn(a, b, k, i + 1)

NatMul(a, b) ==
    At2(LAMBDA u, w :
            IF Len(u) = 0 \/ Len(w) = 0 THEN <<>>
            ELSE NatTrim(NatNorm([k \in 1..(Len(u) + Len(w) - 1) |->
                                     NatColumn(u, w, k, NatMax(1, k + 1 - Len(w)))])),
        a, b)

\* a * k for 0 <= k <= Base
NatMulSmall(a, k) ==
    At2(LAMBDA u, j :
            IF j = 0 THEN <<>> ELSE NatTrim(NatNorm([i \in 1..Len(u) |-> u[i] * j])),
        a, k)

\* a * Base^k
NatShift(a, k) ==
    At(LAMBDA u : IF Len(u) = 0 THEN <<>> ELSE [i \in 1..k |-> 0] \o u, a)

RECURSIVE NatDivSmallFrom(_, _, _, _)
\* quotient limbs of a / k from limb i down, r the remainder so far
NatDivSmallFrom(a, k, i, r) ==
    IF i = 0 THEN <<>>
    ELSE At(LAMBDA t : NatDivSmallFrom(a, k, i - 1, t % k) \o <<t \div k>>,
            r * Base + a[i])

\* floor(a / k) for 1 <= k <= Base
NatDivSmall(a, k) ==
    At2(LAMBDA u, j : NatTrim(NatDivSmallFrom(u, j, Len(u), 0)), a, k)

RECURSIVE NatFit(_, _, _)
\* the largest q <= q0 with q * d <= r
NatFit(q0, d, r) ==
    IF NatCmp(NatMulSmall(d, q0), r) <= 0 THEN q0 ELSE NatFit(q0 - 1, d, r)

\* first guess of the quotient limb floor(r / d), r < d * Base, top limb of d >= Base / 2
NatGuess(d, r) ==
    LET n == Len(d)
    IN  NatMin(Base - 1, (NatLimb(r, n + 1) * Base + NatLimb(r, n)) \div d[n])

RECURSIVE NatLongDiv(_, _, _, _)
\* quotient limbs of a / d, taking the limbs of a from limb i down; r is the
\* remainder so far
NatLongDiv(a, d, i, r) ==
    IF i = 0 THEN <<>>
    ELSE At(LAMBDA t :
                At(LAMBDA q :
                       At(LAMBDA r1 : NatLongDiv(a, d, i - 1, r1) \o <<q>>,
                          NatSub(t, NatMulSmall(d, q))),
                   NatFit(NatGuess(d, t), d, t)),
            NatTrim(<<a[i]>> \o r))

\* floor(a / d) for d # 0 (a, d trimmed): the divisor is scaled to a top limb of
\* at least Base / 2, and the division starts at the first limb of a that can
\* give a quotient limb
NatDiv(a, d) ==
    At2(LAMBDA u, w :
            IF Len(w) = 1 THEN NatDivSmall(u, w[1])
            ELSE LET f == Base \div (w[Len(w)] + 1)
                 IN  At2(LAMBDA an, dn :
                             LET i0 == Len(an) - Len(dn) + 1
                             IN  IF i0 < 1 THEN <<>>
                                 ELSE NatTrim(NatLongDiv(an, dn, i0,
                                                         SubSeq(an, i0 + 1, Len(an)))),
                         NatMulSmall(u, f), NatMulSmall(w, f)),
        a, d)

RECURSIVE NatLowZeros(_, _)
\* the number of low zero limbs of a # 0
NatLowZeros(a, i) == IF a[i] # 0 THEN i - 1 ELSE NatLowZeros(a, i + 1)

(***************************************************************************)
(* f64: [k, s, m, e] is s * m * Base^e for k = "num" (m = <<>> for zero,   *)
(* otherwise without high or low zero limbs), an infinity of sign s for    *)
(* k = "inf", NaN for k = "nan".                                           *)
(***************************************************************************)
\* Base^MaxExp = 1e308: a result at or above it overflows to an infinity.
MaxExp == 77

\* Base^MinExp = 1e-324: a result below it underflows to zero.
MinExp == -81

FZero == [k |-> "num", s |-> 0, m |-> <<>>, e |-> 0]

FInf(sg) == [k |-> "inf", s |-> sg, m |-> <<>>, e |-> 0]

FNaN == [k |-> "nan", s |-> 0, m |-> <<>>, e |-> 0]

\* the exponent of the highest limb of a nonzero number
FTop(a) == a.e + Len(a.m) - 1

FPack(sg, m, e) ==
    At(LAMBDA u :
           LET z == NatLowZeros(u, 1)
               top == e + Len(u) - 1
           IN  IF top >= MaxExp THEN FInf(sg)
               ELSE IF top < MinExp THEN FZero
               ELSE [k |-> "num", s |-> sg, m |-> SubSeq(u, z + 1, Len(u)), e |-> e + z],
       m)

\* sg * m * Base^e rounded to Prec limbs (m trimmed)
FRound(sg, m, e) ==
    At(LAMBDA u :
           IF Len(u) = 0 \/ sg = 0 THEN FZero
           ELSE LET d == Len(u) - Prec
                IN  IF d <= 0 THEN FPack(sg, u, e)
                    ELSE IF 2 * u[d] >= Base
                    THEN FPack(sg, NatAdd(SubSeq(u, d + 1, Len(u)), <<1>>), e + d)
                    ELSE FPack(sg, SubSeq(u, d + 1, Len(u)), e + d),
       m)

Sgn(i) == IF i > 0 THEN 1 ELSE IF i < 0 THEN -1 ELSE 0

Abs(i) == IF i < 0 THEN -i ELSE i

\* the integer i as f64
FromInt(i) == FRound(Sgn(i), NatNorm(<<Abs(i)>>), 0)

FNeg(a) == At(LAMBDA u : [u EXCEPT !.s = -u.s], a)

FAbs(a) == At(LAMBDA u : [u EXCEPT !.s = Abs(u.s)], a)

\* a + b for numbers; the smaller is lost when it lies below the last limb
FAddNum(a, b) ==
    IF a.s = 0 THEN b
    ELSE IF b.s = 0 THEN a
    ELSE IF FTop(a) - FTop(b) > Prec + 1 THEN a
    ELSE IF FTop(b) - FTop(a) > Prec + 1 THEN b
    ELSE At2(LAMBDA ma, mb :
                 IF a.s = b.s THEN FRound(a.s, NatAdd(ma, mb), NatMin(a.e, b.e))
                 ELSE IF NatCmp(ma, mb) = 0 THEN FZero
                 ELSE IF NatCmp(ma, mb) > 0
                 THEN FRound(a.s, NatSub(ma, mb), NatMin(a.e, b.e))
                 ELSE FRound(b.s, NatSub(mb, ma), NatMin(a.e, b.e)),
             NatShift(a.m, a.e - NatMin(a.e, b.e)),
             NatShift(b.m, b.e - NatMin(a.e, b.e)))

FAdd(a, b) ==
    At2(LAMBDA u, w :
            IF u.k = "nan" \/ w.k = "nan" THEN FNaN
            ELSE IF u.k = "inf" THEN (IF w.k = "inf" /\ w.s # u.s THEN FNaN ELSE u)
            ELSE IF w.k = "inf" THEN w
            ELSE FAddNum(u, w),
        a, b)

FSub(a, b) == FAdd(a, FNeg(b))

FMul(a, b) ==
    At2(LAMBDA u, w :
            IF u.k = "nan" \/ w.k = "nan" THEN FNaN
            ELSE IF u.k = "inf" \/ w.k = "inf"
                 THEN (IF u.s * w.s = 0 THEN FNaN ELSE FInf(u.s * w.s))
            ELSE FRound(u.s * w.s, NatMul(u.m, w.m), u.e + w.e),
        a, b)

FDivNum(a, b) ==
    LET sh == Prec + 1 + Len(b.m) - Len(a.m)
    IN  FRound(a.s * b.s, NatDiv(NatShift(a.m, sh), b.m), a.e - sh - b.e)

\* a / b; a zero divisor is +0
FDiv(a, b) ==
    At2(LAMBDA u, w :
            IF u.k = "nan" \/ w.k = "nan" THEN FNaN
            ELSE IF u.k = "inf" THEN (IF w.k = "inf" THEN FNaN
                                      ELSE FInf(IF w.s < 0 THEN -u.s ELSE u.s))
            ELSE IF w.k = "inf" THEN FZero
            ELSE IF w.s = 0 THEN (IF u.s = 0 THEN FNaN ELSE FInf(u.s))
            ELSE IF u.s = 0 THEN FZero
            ELSE FDivNum(u, w),
        a, b)

\* -1, 0, 1 as a < b, a = b, a > b (neither NaN)
FCmp(a, b) ==
    At2(LAMBDA u, w :
            IF u = w THEN 0
            ELSE IF u.k = "inf" THEN u.s
            ELSE IF w.k = "inf" THEN -w.s
            ELSE At(LAMBDA nw : FAddNum(u, nw).s, FNeg(w)),
        a, b)

\* comparisons with NaN are false
FLt(a, b) == At2(LAMBDA u, w : u.k # "nan" /\ w.k # "nan" /\ FCmp(u, w) < 0, a, b)

FLe(a, b) == At2(LAMBDA u, w : u.k # "nan" /\ w.k # "nan" /\ FCmp(u, w) <= 0, a, b)

FGt(a, b) == FLt(b, a)

\* the limbs of the whole part of m * Base^e
NatWhole(m, e) ==
    IF e >= 0 THEN NatShift(m, e)
    ELSE IF -e >= Len(m) THEN <<>> ELSE SubSeq(m, 1 - e, Len(m))

\* u64::MAX, 1844 6744 0737 0955 1615
U64Max == <<1615, 955, 737, 6744, 1844>>

\* `x as u64`, as limbs: NaN and negatives to 0, the fraction dropped, saturating
AsU64(a) ==
    At(LAMBDA u :
           IF u.k = "nan" \/ u.s <= 0 THEN <<>>
           ELSE IF u.k = "inf" THEN U64Max
           ELSE At(LAMBDA w : IF NatCmp(w, U64Max) > 0 THEN U64Max ELSE w,
                   NatWhole(u.m, u.e)),
       a)

\* a u64 as f64
FromNat(m) == FRound(1, m, 0)

\* the whole part of a, for 0 <= a < Base * Base
Floor(a) ==
    At(LAMBDA w : NatLimb(w, 1) + Base * NatLimb(w, 2), NatWhole(a.m, a.e))

(***************************************************************************)
(* f64::sqrt, f64::exp and f64::log10, computed in the arithmetic above.   *)
(***************************************************************************)
One == FromInt(1)

Two == FromInt(2)

RECURSIVE IntSqrtFrom(_, _)
\* Newton's iteration from x >= sqrt(n) down to floor(sqrt(n))
IntSqrtFrom(n, x) ==
    At(LAMBDA y : IF y >= x THEN x ELSE IntSqrtFrom(n, y), (x + n \div x) \div 2)

\* floor(sqrt(n)) for 1 <= n < Base * Base
IntSqrt(n) == IntSqrtFrom(n, Base)

RECURSIVE NatSqrtFrom(_, _)
NatSqrtFrom(n, x) ==
    At(LAMBDA y : IF NatCmp(y, x) >= 0 THEN x ELSE NatSqrtFrom(n, y),
       NatDivSmall(NatAdd(x, NatDiv(n, x)), 2))

\* floor(sqrt(n)) for n # 0, Newton's iteration from a guess above the root
NatSqrt(n) ==
    At(LAMBDA u :
           LET L == Len(u)
               g == IF L % 2 = 0 THEN IntSqrt(u[L] * Base + u[L - 1]) + 1
                                 ELSE IntSqrt(u[L]) + 1
           IN  At(LAMBDA x0 : NatSqrtFrom(u, x0),
                  NatShift(NatNorm(<<g>>), (L - 1) \div 2)),
       n)

FSqrt(a) ==
    At(LAMBDA u :
           IF u.k = "nan" \/ u.s < 0 THEN FNaN
           ELSE IF u.k = "inf" \/ u.s = 0 THEN u
           ELSE LET k0 == 2 * Prec + 2 - Len(u.m)
                    sh == IF (u.e - k0) % 2 = 0 THEN k0 ELSE k0 + 1
                IN  FRound(1, NatSqrt(NatShift(u.m, sh)), (u.e - sh) \div 2),
       a)

RECURSIVE ExpSum(_, _, _, _)
\* 1 + r + r^2/2! + ..., summed until a term no longer changes the sum; term is
\* r^(j-1)/(j-1)!, sum the terms before it
ExpSum(r, j, term, sum) ==
    At2(LAMBDA s, t : IF s = sum THEN sum ELSE ExpSum(r, j + 1, t, s),
        FAdd(sum, term), FDiv(FMul(term, r), FromInt(j)))

RECURSIVE Pow2From(_, _)
\* the least k >= k0 with 2^k >= n
Pow2From(n, k0) == IF 2 ^ k0 >= n THEN k0 ELSE Pow2From(n, k0 + 1)

RECURSIVE Squared(_, _)
\* v^(2^k)
Squared(v, k) ==
    IF k = 0 THEN v
    ELSE At(LAMBDA w : IF w.k # "num" THEN w ELSE Squared(w, k - 1), FMul(v, v))

\* exp(a) for 0 < a <= ExpMax + 1: exp(a) = exp(a / 2^k)^(2^k) with a / 2^k <= 1/2
ExpReduced(a) ==
    At(LAMBDA k :
           At(LAMBDA r : At(LAMBDA s0 : Squared(s0, k), ExpSum(r, 1, One, FZero)),
              FDiv(a, FromInt(2 ^ k))),
       Pow2From(2 * (Floor(a) + 1), 0))

\* f64::exp overflows to +infinity above ln(f64::MAX) = 709.78
ExpMax == 709

\* f64::exp; exp(-a) is 1/exp(a), so that a result below 1e-308 is zero
FExp(t) ==
    At(LAMBDA u :
           IF u.k = "nan" THEN FNaN
           ELSE IF u.k = "inf" THEN (IF u.s > 0 THEN u ELSE FZero)
           ELSE IF u.s = 0 THEN One
           ELSE IF FGt(FAbs(u), FromInt(ExpMax)) THEN (IF u.s > 0 THEN FInf(1) ELSE FZero)
           ELSE IF u.s > 0 THEN ExpReduced(u)
           ELSE FDiv(One, ExpReduced(FAbs(u))),
       t)

\* ln 2 = 0.6931 4718 0559 9453 0942
Ln2 == [k |-> "num", s |-> 1, m |-> <<942, 9453, 559, 4718, 6931>>, e |-> -5]

\* ln 10 = 2.3025 8509 2994 0457
Ln10 == [k |-> "num", s |-> 1, m |-> <<457, 2994, 8509, 3025, 2>>, e |-> -4]

RECURSIVE LnSum(_, _, _, _)
\* z + z^3/3 + z^5/5 + ..., summed until a term no longer changes the sum; pow
\* is z^(2j+1), z2 is z^2
LnSum(z2, j, pow, sum) ==
    At2(LAMBDA s, p : IF s = sum THEN sum ELSE LnSum(z2, j + 1, p, s),
        FAdd(sum, FDiv(pow, FromInt(2 * j + 1))), FMul(pow, z2))

\* ln(u) for 1 <= u < Base: ln(u) = h * ln 2 + ln(w), w = u / 2^h in [1, 2),
\* ln(w) = 2 * atanh((w - 1)/(w + 1))
LnReduced(u) ==
    At(LAMBDA h :
           At(LAMBDA w :
                  At(LAMBDA z :
                         At(LAMBDA z2 :
                                FAdd(FMul(FromInt(h), Ln2),
                                     FMul(Two, LnSum(z2, 0, z, FZero))),
                            FMul(z, z)),
                     FDiv(FSub(w, One), FAdd(w, One))),
              FDiv(u, FromInt(2 ^ h))),
       Pow2From(Floor(u) + 1, 0) - 1)

FLog10(p) ==
    At(LAMBDA q :
           IF q.k = "nan" \/ q.s < 0 THEN FNaN
           ELSE IF q.k = "inf" THEN q
           ELSE IF q.s = 0 THEN FInf(-1)
           ELSE At(LAMBDA u : FAdd(FromInt(4 * FTop(q)), FDiv(LnReduced(u), Ln10)),
                   [q EXCEPT !.e = q.e - FTop(q)]),
       p)

VARIABLES
    n,          \* PingWindow.n
    last_ping,  \* PingWindow.last_ping, in ticks since the construction instant
    sum,        \* PingWindow.sum
    sum2,       \* PingWindow.sum2
    beats,      \* history: the number of add_ping calls that returned
    call,       \* the last call made: its name, its argument and what it returned
    dist,       \* the NormalDist whose functions are called
    pc,         \* "idle", "bisect" (inside integral_inv's loop) or "panicked"
    v,          \* integral_inv: v
    lower,      \* integral_inv: lower
    upper,      \* integral_inv: upper
    mid         \* integral_inv: mid

vars == <<n, last_ping, sum, sum2, beats, call, dist, pc, v, lower, upper, mid>>

(***************************************************************************)
(* Instants and Durations are counted in ticks, TicksPerMs to the          *)
(* millisecond: an Instant is finer than the millisecond add_ping and phi  *)
(* work in.                                                                *)
(***************************************************************************)
TicksPerMs == 2

\* Duration::as_millis
AsMillis(d) == d \div TicksPerMs

\* Duration::from_millis
FromMillis(ms) == ms * TicksPerMs

\* phi_from_prob: its assertion, and its value
ProbInRange(x) == FLe(FZero, x) /\ FLe(x, One)

PhiFromProb(x) == FNeg(FLog10(x))

ProbFromPhi(x) == FExp(FNeg(x))

(***************************************************************************)
(* NormalDist                                                              *)
(***************************************************************************)
\* 1.5976
CoefLinear == FDiv(FromInt(15976), FromInt(10000))

\* 0.070566
CoefCubic == FDiv(FromInt(70566), FromInt(1000000))

\* an integral that takes y from mu down to x
IntegralRising(d, x) ==
    At(LAMBDA e :
           IF FGt(x, d.mu) THEN FDiv(e, FAdd(One, e))
           ELSE FSub(One, FDiv(One, FAdd(One, e))),
       At(LAMBDA y : FExp(FMul(FNeg(y), FAdd(CoefLinear, FMul(FMul(CoefCubic, y), y)))),
          FDiv(FSub(d.mu, x), d.sigma)))

\* NormalDist::integral
Integral(d, x) ==
    At(LAMBDA e :
           IF FGt(x, d.mu) THEN FDiv(e, FAdd(One, e))
           ELSE FSub(One, FDiv(One, FAdd(One, e))),
       At(LAMBDA y : FExp(FMul(FNeg(y), FAdd(CoefLinear, FMul(FMul(CoefCubic, y), y)))),
          FDiv(FSub(x, d.mu), d.sigma)))

\* PingWindow::normal_dist
NormalDistOf(w) ==
    [mu |-> FDiv(w.sum, FromInt(w.n)),
     sigma |-> FSqrt(FDiv(w.sum2, FromInt(w.n)))]

\* an eps of 0.001
EpsCoarse == FDiv(One, FromInt(1000))

\* integral_inv: eps, 0.0000000001
Eps == FDiv(One, FMul(FromInt(100000), FromInt(100000)))

\* integral_inv: the first upper bound, 1e18
FarOut == FMul(FromInt(1000000000), FromInt(1000000000))

\* integral_inv: its assertion on v
Invertible(t) == FGt(t, FZero)

\* integral_inv: the loop condition, for the target t at the midpoint m
Unsettled(d, t, m) == FGt(FAbs(FSub(t, Integral(d, m))), Eps)

\* integral_inv: the body of the loop
Narrowed(d, t, lo, hi, m) ==
    At(LAMBDA below :
           IF below THEN [lower |-> lo, upper |-> m, mid |-> FDiv(FAdd(lo, m), Two)]
           ELSE [lower |-> m, upper |-> hi, mid |-> FDiv(FAdd(m, hi), Two)],
       FLt(Integral(d, m), t))

\* phi, on an elapsed time of x milliseconds
Phi(d, x) == PhiFromProb(Integral(d, x))

\* Duration::from_millis of a u64 below 2^31
Millis(k) == NatNorm(<<k>>)

\* NormalDist::mu and NormalDist::sigma, in milliseconds
MuMillis(d) == AsU64(d.mu)

SigmaMillis(d) == AsU64(d.sigma)

(***************************************************************************)
(* PingWindow                                                              *)
(***************************************************************************)
\* Duration::from_secs(5)
DeadlineSecs == 5

\* the factor 0.2 of the initial deviation
PriorSpread == FDiv(FromInt(2), FromInt(10))

\* the window size at which add_ping rescales
WindowCap == 10000

\* PingWindow::new with one prior sample in place of two
NewWindowOnePrior(now) ==
    LET x == FromInt(AsMillis(FromMillis(DeadlineSecs * 1000)))
    IN  [n |-> 2,
         last_ping |-> now,
         sum |-> x,
         sum2 |-> FMul(FMul(x, PriorSpread), FMul(x, PriorSpread))]

\* PingWindow::new at the instant now
NewWindow(now) ==
    LET x == FromInt(AsMillis(FromMillis(DeadlineSecs * 1000)))
    IN  [n |-> 2,
         last_ping |-> now,
         sum |-> FMul(x, Two),
         sum2 |-> FMul(FMul(Two, FMul(x, PriorSpread)), FMul(x, PriorSpread))]

\* an assertion that lets the instant of last_ping itself through
AcceptsEqual(w, ping) == ping >= w.last_ping

\* add_ping's assertion
Accepts(w, ping) == ping > w.last_ping

\* a rescaling that leaves n as it is
RescaledKeepN(w) ==
    IF w.n = WindowCap
    THEN [w EXCEPT !.sum = FMul(FDiv(w.sum, FromInt(w.n)), FromInt(w.n - 1)),
                   !.sum2 = FMul(FDiv(w.sum2, FromInt(w.n)), FromInt(w.n - 1))]
    ELSE w

\* add_ping, the window at its cap: both sums scaled by (n-1)/n, n one less
Rescaled(w) ==
    IF w.n = WindowCap
    THEN [w EXCEPT !.sum = FMul(FDiv(w.sum, FromInt(w.n)), FromInt(w.n - 1)),
                   !.sum2 = FMul(FDiv(w.sum2, FromInt(w.n)), FromInt(w.n - 1)),
                   !.n = w.n - 1]
    ELSE w

\* a fold that takes the deviation from the mean before the interval
FoldedOldMean(w, ping) ==
    LET x == FromInt(AsMillis(ping - w.last_ping))
        mu == FDiv(w.sum, FromInt(w.n))
    IN  [n |-> w.n + 1,
         last_ping |-> ping,
         sum |-> FAdd(w.sum, x),
         sum2 |-> FAdd(w.sum2, FMul(FSub(x, mu), FSub(x, mu)))]

\* add_ping, the interval folded in
Folded(w, ping) ==
    LET x == FromInt(AsMillis(ping - w.last_ping))
        s == FAdd(w.sum, x)
        mu == FDiv(s, FromInt(w.n + 1))
    IN  [n |-> w.n + 1,
         last_ping |-> ping,
         sum |-> s,
         sum2 |-> FAdd(w.sum2, FMul(FSub(x, mu), FSub(x, mu)))]

\* an update that leaves last_ping as it was
AddPingResultUnstamped(w, ping) ==
    [Folded(Rescaled(w), ping) EXCEPT !.last_ping = w.last_ping]

\* the window add_ping(ping) leaves
AddPingResult(w, ping) == Folded(Rescaled(w), ping)

Window == [n |-> n, last_ping |-> last_ping, sum |-> sum, sum2 |-> sum2]

(***************************************************************************)
(* The owner of a PingWindow.  Until the window is within Near samples of  *)
(* its cap the heartbeats arrive back to back, one tick apart; from there  *)
(* on they arrive at any gap of Gaps, up to MaxBeats heartbeats in all.    *)
(* Before the first heartbeat and near the cap the owner also reads the    *)
(* window and hands add_ping instants that are not after last_ping.        *)
(***************************************************************************)
Near == 1

Extra == 3

MaxBeats == WindowCap - 2 + Extra

Gaps == {1, TicksPerMs, 3 * TicksPerMs}

GapsAt(w) == IF w.n >= WindowCap - Near THEN Gaps ELSE {1}

Watched == beats = 0 \/ n >= WindowCap - Near

\* the instants add_ping is called with
Pings ==
    {last_ping + gap : gap \in GapsAt(Window)}
        \cup (IF Watched THEN {t \in {last_ping - 1, last_ping} : t >= 0} ELSE {})

NoDist == [mu |-> FNaN, sigma |-> FNaN]

\* a call's record: was is the window the call was made on, ret the Instant
\* it returned, ms the Duration it returned (the limbs of its milliseconds),
\* val the f64, snap the NormalDist; parg and pval are arg and val of the phi
\* call right before a phi call
Called(op, arg, ok, ret) ==
    [op |-> op, arg |-> arg, ok |-> ok, ret |-> ret, was |-> Window, ms |-> <<>>,
     val |-> FZero, snap |-> NoDist, parg |-> -1, pval |-> FZero]

win == <<n, last_ping, sum, sum2, beats>>

loop == <<v, lower, upper, mid>>

Init ==
    LET w == NewWindow(0)
    IN  /\ n = w.n
        /\ last_ping = w.last_ping
        /\ sum = w.sum
        /\ sum2 = w.sum2
        /\ beats = 0
        /\ call = Called("new", 0, TRUE, 0)
        /\ dist = NoDist
        /\ pc = "idle"
        /\ v = FZero
        /\ lower = FZero
        /\ upper = FZero
        /\ mid = FZero

\* add_ping(ping): the assertion, then the update
AddPing ==
    /\ pc = "idle"
    /\ \E ping \in Pings :
          IF Accepts(Window, ping)
          THEN LET w == AddPingResult(Window, ping)
               IN  /\ beats < MaxBeats
                   /\ n' = w.n
                   /\ last_ping' = w.last_ping
                   /\ sum' = w.sum
                   /\ sum2' = w.sum2
                   /\ beats' = beats + 1
                   /\ call' = Called("add_ping", ping, TRUE, 0)
                   /\ pc' = pc
          ELSE /\ call' = Called("add_ping", ping, FALSE, 0)
               /\ pc' = "panicked"
               /\ UNCHANGED win
    /\ UNCHANGED <<dist, loop>>

\* last_ping()
LastPing ==
    /\ pc = "idle"
    /\ Watched
    /\ call' = Called("last_ping", 0, TRUE, last_ping)
    /\ UNCHANGED <<win, dist, pc, loop>>

\* normal_dist()
NormalDist ==
    /\ pc = "idle"
    /\ Watched
    /\ call' = [Called("normal_dist", 0, TRUE, 0) EXCEPT !.snap = NormalDistOf(Window)]
    /\ UNCHANGED <<win, dist, pc, loop>>

Next == AddPing \/ LastPing \/ NormalDist

Spec == Init /\ [][Next]_vars

(***************************************************************************)
(* Properties of the PingWindow, under Spec.                               *)
(***************************************************************************)
\* a step that is a call of add_ping, and one that is a call which returned
AddPingStep == call'.op = "add_ping"

AddPingReturned == call'.op = "add_ping" /\ call'.ok

\* C1: n is at least 1 and never above 10,000; it is 2 plus the heartbeats
\* taken until it reaches 10,000, and a heartbeat taken at 10,000 leaves it
\* at 10,000.
SampleCountCapped ==
    /\ n >= 1
    /\ n <= WindowCap
    /\ n = NatMin(2 + beats, WindowCap)

SampleCountAtCap == n = WindowCap /\ beats = MaxBeats

\* C2: add_ping with an instant equal to or before last_ping fails, and the
\* window is as it was before the call; with a later instant it returns.
LatePingFails ==
    [][AddPingStep =>
          IF call'.arg <= last_ping
          THEN ~call'.ok /\ pc' = "panicked" /\ UNCHANGED <<n, last_ping, sum, sum2>>
          ELSE call'.ok /\ pc' = "idle"]_vars

LatePingSeen ==
    /\ pc = "panicked"
    /\ call.op = "add_ping"
    /\ call.arg = last_ping
    /\ beats > 0

\* C3: last_ping starts at the instant of construction and never decreases;
\* add_ping(t) that returns sets it to exactly t, which is after its old
\* value; no other call changes it, and last_ping() returns it.
LastPingMonotone ==
    /\ last_ping = NewWindow(0).last_ping
    /\ [][/\ last_ping' >= last_ping
          /\ IF AddPingReturned
             THEN last_ping' = call'.arg /\ last_ping' > last_ping
             ELSE last_ping' = last_ping
          /\ call'.op = "last_ping" => call'.ret = last_ping]_vars

LastPingMoved ==
    /\ call.op = "add_ping"
    /\ call.ok
    /\ last_ping = call.arg
    /\ beats > WindowCap

\* C4: the snapshot of a window that has taken no heartbeat has a mean of
\* exactly 5000 ms and a standard deviation of exactly 1000 ms.
FreshSnapshot ==
    (call.op = "normal_dist" /\ beats = 0) =>
        /\ FCmp(call.snap.mu, FromInt(5000)) = 0
        /\ FCmp(call.snap.sigma, FromInt(1000)) = 0
        /\ MuMillis(call.snap) = Millis(5000)
        /\ SigmaMillis(call.snap) = Millis(1000)

FreshSnapshotTaken ==
    /\ call.op = "normal_dist"
    /\ beats = 0
    /\ SigmaMillis(call.snap) = Millis(1000)

\* C9: add_ping with an interval of x ms adds x to sum, adds 1 to n, and adds
\* to sum2 the square of x minus sum/n taken after x was added; at n = 10,000
\* it first scales sum and sum2 by (n - 1)/n and takes 1 from n.
AddPingFolds ==
    (call.op = "add_ping" /\ call.ok) =>
        LET w == call.was
            x == FromInt(AsMillis(call.arg - w.last_ping))
            full == w.n = WindowCap
            scale(a) == IF full THEN FMul(FDiv(a, FromInt(w.n)), FromInt(w.n - 1)) ELSE a
            dev == FSub(x, FDiv(sum, FromInt(n)))
        IN  /\ n = (IF full THEN w.n - 1 ELSE w.n) + 1
            /\ sum = FAdd(scale(w.sum), x)
            /\ sum2 = FAdd(scale(w.sum2), FMul(dev, dev))

AddPingFoldedAtCap ==
    /\ call.op = "add_ping"
    /\ call.ok
    /\ n = WindowCap
    /\ beats >= WindowCap
    /\ FGt(sum, FromInt(2 * 5000))

(***************************************************************************)
(* The owner of a NormalDist.  The snapshot is normal_dist() of a window   *)
(* of Windows: the window as constructed, or a window at its cap whose     *)
(* heartbeats have long been DeadlineSecs apart, so that sum is the cap    *)
(* times that interval and sum2, scaled down at every heartbeat, has       *)
(* shrunk to one of Decayed.                                               *)
(***************************************************************************)
\* sum2 after the decay: 2500; 0.000000000001; 0
Decayed ==
    {FromInt(2500), FDiv(FDiv(One, FromInt(1000000)), FromInt(1000000)), FZero}

Settled(s2) ==
    [n |-> WindowCap,
     last_ping |-> 0,
     sum |-> FromInt(DeadlineSecs * 1000 * WindowCap),
     sum2 |-> s2]

Windows == {NewWindow(0)} \cup {Settled(s2) : s2 \in Decayed}

Fresh == NormalDistOf(NewWindow(0))

\* the elapsed times phi is called with, in ticks
Elapsed ==
    {1, FromMillis(5000), FromMillis(5001), FromMillis(5001) + 1, FromMillis(60000)}

\* the suspicion levels phi_inv is called with
Levels == {0, 1, 3}

\* the points of test_bisect, in milliseconds
Points == {1, 10, 100, 1000, 10000}

DistInit ==
    \E w \in Windows :
        /\ n = w.n
        /\ last_ping = w.last_ping
        /\ sum = w.sum
        /\ sum2 = w.sum2
        /\ beats = 0
        /\ call = [Called("normal_dist", 0, TRUE, 0) EXCEPT !.snap = NormalDistOf(w)]
        /\ dist = NormalDistOf(w)
        /\ pc = "idle"
        /\ v = FZero
        /\ lower = FZero
        /\ upper = FZero
        /\ mid = FZero

\* mu()
Mu ==
    /\ pc = "idle"
    /\ call' = [Called("mu", 0, TRUE, 0) EXCEPT !.ms = MuMillis(dist)]
    /\ UNCHANGED <<win, dist, pc, loop>>

\* sigma()
Sigma ==
    /\ pc = "idle"
    /\ call' = [Called("sigma", 0, TRUE, 0) EXCEPT !.ms = SigmaMillis(dist)]
    /\ UNCHANGED <<win, dist, pc, loop>>

\* phi(elapsed): phi_from_prob's assertion, then its value
PhiCall ==
    /\ pc = "idle"
    /\ \E elapsed \in Elapsed :
          \E p \in {Integral(dist, FromInt(AsMillis(elapsed)))} :
          LET before == call.op = "phi"
          IN  IF ProbInRange(p)
              THEN /\ call' = [Called("phi", elapsed, TRUE, 0) EXCEPT
                                  !.val = PhiFromProb(p),
                                  !.parg = IF before THEN call.arg ELSE -1,
                                  !.pval = IF before THEN call.val ELSE FZero]
                   /\ pc' = pc
              ELSE /\ call' = Called("phi", elapsed, FALSE, 0)
                   /\ pc' = "panicked"
    /\ UNCHANGED <<win, dist, loop>>

\* integral_inv(t) up to its loop, called as op(arg)
Enter(op, arg, t) ==
    \E target \in {t} :
        IF Invertible(target)
        THEN /\ call' = Called(op, arg, TRUE, 0)
             /\ pc' = "bisect"
             /\ v' = target
             /\ lower' = FNeg(FarOut)
             /\ upper' = FarOut
             /\ mid' = FZero
        ELSE /\ call' = Called(op, arg, FALSE, 0)
             /\ pc' = "panicked"
             /\ UNCHANGED loop

\* phi_inv(level), up to the loop of integral_inv
PhiInv ==
    /\ pc = "idle"
    /\ \E level \in Levels : Enter("phi_inv", level, ProbFromPhi(FromInt(level)))
    /\ UNCHANGED <<win, dist>>

\* integral_inv(integral(x0)), up to the loop of integral_inv
IntegralInv ==
    /\ pc = "idle"
    /\ \E x0 \in Points : Enter("integral_inv", x0, Integral(dist, FromInt(x0)))
    /\ UNCHANGED <<win, dist>>

\* one test of the loop condition of integral_inv: another round, or the
\* return of mid, which phi_inv turns into a Duration; the locals end with
\* the call
Bisect ==
    /\ pc = "bisect"
    /\ IF Unsettled(dist, v, mid)
       THEN \E r \in {Narrowed(dist, v, lower, upper, mid)} :
                /\ lower' = r.lower
                /\ upper' = r.upper
                /\ mid' = r.mid
                /\ UNCHANGED <<call, pc, v>>
       ELSE /\ call' = [call EXCEPT !.val = mid, !.ms = AsU64(mid)]
            /\ pc' = "idle"
            /\ v' = FZero
            /\ lower' = FZero
            /\ upper' = FZero
            /\ mid' = FZero
    /\ UNCHANGED <<win, dist>>

DistNext == Mu \/ Sigma \/ PhiCall \/ PhiInv \/ IntegralInv \/ Bisect

DistSpec == DistInit /\ [][DistNext]_vars

(***************************************************************************)
(* Properties of the NormalDist, under DistSpec.                           *)
(***************************************************************************)
\* a phi call that returned, right after a phi call
PhiAfterPhi == call.op = "phi" /\ call.ok /\ call.parg >= 0

\* C5: of two phi calls on one snapshot that both return, the one with the
\* longer elapsed time returns a value that is not smaller.
PhiNonDecreasing ==
    PhiAfterPhi =>
        /\ call.parg < call.arg => FLe(call.pval, call.val)
        /\ call.parg > call.arg => FLe(call.val, call.pval)

\* C5 as stated: the longer elapsed time returns the strictly greater value.
PhiStrictlyIncreasing ==
    PhiAfterPhi =>
        /\ call.parg < call.arg => FLt(call.pval, call.val)
        /\ call.parg > call.arg => FLt(call.val, call.pval)

PhiRose ==
    /\ PhiAfterPhi
    /\ call.parg < call.arg
    /\ FLt(call.pval, call.val)
    /\ call.val.k = "num"

\* C6: phi of the duration phi_inv(level) returns is level, up to the
\* truncation of the duration to a millisecond: level lies between phi at
\* that millisecond and phi at the next, give or take 0.001.
PhiInvInvertsPhi ==
    (call.op = "phi_inv" /\ call.ok /\ pc = "idle") =>
        LET slack == FDiv(One, FromInt(1000))
            level == FromInt(call.arg)
        IN  /\ FLe(FSub(Phi(dist, FromNat(call.ms)), slack), level)
            /\ FLe(level, FAdd(Phi(dist, FromNat(NatAdd(call.ms, <<1>>))), slack))

\* C7: on the snapshot of a window as constructed, integral_inv of the
\* integral at x0 = 1, 10, 100, 1000, 10000 is less than 1 away from x0.
BisectRoundTrip ==
    (call.op = "integral_inv" /\ call.ok /\ pc = "idle" /\ dist = Fresh) =>
        FLt(FAbs(FSub(call.val, FromInt(call.arg))), One)

BisectRoundTripDone ==
    /\ call.op = "integral_inv"
    /\ call.ok
    /\ pc = "idle"
    /\ dist = Fresh
    /\ call.arg = 10000
    /\ AsU64(call.val) \in {Millis(9999), Millis(10000)}

\* C8: the loop of integral_inv exits: when a round would leave lower, upper
\* and mid as they are, the loop condition is false.
BisectExits ==
    ~ /\ pc = "bisect"
      /\ Unsettled(dist, v, mid)
      /\ Narrowed(dist, v, lower, upper, mid)
             = [lower |-> lower, upper |-> upper, mid |-> mid]

\* a snapshot with its sigma raised to 1 ms
Floored(d) == IF FLt(d.sigma, One) THEN [d EXCEPT !.sigma = One] ELSE d

\* C10: phi is computed with a sigma of at least 1 ms: on a snapshot whose
\* sigma is below 1 ms it returns what it returns for a sigma of 1 ms.
SigmaFloored ==
    (call.op = "phi" /\ call.ok) =>
        call.val = Phi(Floored(dist), FromInt(AsMillis(call.arg)))

====
